---- MODULE Spec2Model ----
(***************************************************************************)
(* A model of parse_xs.py, the MarkXS document parser.                     *)
(*                                                                         *)
(* A line of text is a sequence of one-character strings.  Offsets into a  *)
(* line are 0-based, as in the Python source; At and Slice translate them  *)
(* to TLA+ sequences.  The Python heap of block dictionaries is the arena  *)
(* `nodes`: a block is named by its index there, and the `body` list of a  *)
(* Section node, the document `body` and `section_stack` hold such         *)
(* indices (Python object references).                                     *)
(***************************************************************************)
EXTENDS Integers, Sequences, FiniteSets, TLC

VARIABLES
    lines,          \* parse_document's argument
    pc,             \* position in parse_document / parse_inline
    idx,            \* the line cursor (0-based)
    header,         \* the Header node, or None
    metadata,       \* list of MetadataEntry
    nodes,          \* arena of block nodes created so far
    body,           \* the document root body: list of node ids
    section_stack,  \* list of node ids of open sections, innermost last
    diagnostics,    \* list of diagnostics
    document,       \* the value parse_document returns, None before that
    text,           \* parse_inline's argument
    allow_inline_comment, \* parse_inline's flag
    result          \* the value parse_inline returns, None before that

docVars == <<lines, idx, header, metadata, nodes, body, section_stack, diagnostics, document>>
inlVars == <<text, allow_inline_comment, result>>
vars == <<lines, pc, idx, header, metadata, nodes, body, section_stack, diagnostics, document, text, allow_inline_comment, result>>

None == [type |-> "None"]

(***************************************************************************)
(* Characters and Python string primitives                                 *)
(***************************************************************************)
UpperChars == {"A","B","C","D","E","F","G","H","I","J","K","L","M","N","O","P","Q","R","S","T","U","V","W","X","Y","Z"}
LowerChars == {"a","b","c","d","e","f","g","h","i","j","k","l","m","n","o","p","q","r","s","t","u","v","w","x","y","z"}
DigitSeq == <<"0","1","2","3","4","5","6","7","8","9">>
DigitChars == {DigitSeq[i] : i \in 1..10}
\* [A-Za-z0-9_-]
WordChars == UpperChars \cup LowerChars \cup DigitChars \cup {"_", "-"}
\* \s and str.strip()
SpaceChars == {" ", "\t"}
BulletMarkers == {"-", "*", "+"}
\* The backquote character (U+0060), which the module syntax cannot quote.
Backtick == "BQ"
FenceMarker == <<Backtick, Backtick, Backtick>>
CommentMarker == <<"i", "#">>

At(s, i) == s[i + 1]
\* s[a:b]
Slice(s, a, b) == SubSeq(s, a + 1, b)
\* s[a:]
SliceFrom(s, a) == SubSeq(s, a + 1, Len(s))

Min(S) == CHOOSE x \in S : \A y \in S : x <= y

\* s.startswith(p, i)
StartsWith(s, p, i) ==
    /\ i + Len(p) <= Len(s)
    /\ \A k \in 1..Len(p) : s[i + k] = p[k]

\* p in s
Contains(s, p) == \E i \in 0..Len(s) : StartsWith(s, p, i)
\* s.index(p)
IndexOf(s, p) == Min({i \in 0..Len(s) : StartsWith(s, p, i)})
\* s.index(c) for a character c, or -1
FindChar(s, c) ==
    IF \E i \in 1..Len(s) : s[i] = c
    THEN Min({i \in 1..Len(s) : s[i] = c}) - 1
    ELSE -1

\* the number of leading characters of s that lie in the set cs
LeadCount(s, cs) ==
    IF \A i \in 1..Len(s) : s[i] \in cs
    THEN Len(s)
    ELSE Min({i \in 1..Len(s) : s[i] \notin cs}) - 1
\* the number of trailing characters of s that lie in the set cs
TrailCount(s, cs) ==
    IF \A i \in 1..Len(s) : s[i] \in cs
    THEN Len(s)
    ELSE Len(s) - (CHOOSE i \in 1..Len(s) : s[i] \notin cs /\ \A j \in (i+1)..Len(s) : s[j] \in cs)

LStrip(s) == SliceFrom(s, LeadCount(s, SpaceChars))
RStrip(s) == Slice(s, 0, Len(s) - TrailCount(s, SpaceChars))
Strip(s) == LStrip(RStrip(s))
\* `not line.strip()`
IsBlank(s) == Strip(s) = <<>>

\* " ".join(parts)
RECURSIVE JoinSpace(_)
JoinSpace(parts) ==
    IF Len(parts) = 0 THEN <<>>
    ELSE IF Len(parts) = 1 THEN parts[1]
    ELSE parts[1] \o <<" ">> \o JoinSpace(Tail(parts))

\* s.split(sep) for a one-character separator
RECURSIVE Split(_, _)
Split(s, sep) ==
    LET p == FindChar(s, sep) IN
    IF p = -1 THEN <<s>>
    ELSE <<Slice(s, 0, p)>> \o Split(SliceFrom(s, p + 1), sep)

\* int(x) for a string of decimal digits
RECURSIVE ParseInt(_)
ParseInt(s) ==
    IF Len(s) = 0 THEN 0
    ELSE 10 * ParseInt(Slice(s, 0, Len(s) - 1))
         + (CHOOSE d \in 0..9 : DigitSeq[d + 1] = s[Len(s)])

make_loc(start_line, start_col, end_line, end_col) ==
    [start |-> [line |-> start_line, column |-> start_col],
     end |-> [line |-> end_line, column |-> end_col]]

(***************************************************************************)
(* The line grammars (the module-level regular expressions)                *)
(***************************************************************************)
\* W+(?: W+)* for a character class W without the space: words joined by
\* single spaces
IsWords(s, cs) ==
    /\ Len(s) > 0
    /\ \A i \in 1..Len(s) : s[i] \in cs \cup {" "}
    /\ s[1] # " "
    /\ s[Len(s)] # " "
    /\ \A i \in 1..(Len(s) - 1) : ~(s[i] = " " /\ s[i + 1] = " ")

\* HEADER_RE.match(line): the tag ends at the first colon
HEADER_RE(line) ==
    LET c == FindChar(line, ":") IN
    IF /\ c >= 1
       /\ IsWords(Slice(line, 0, c), UpperChars)
       /\ Len(line) >= c + 3
       /\ At(line, c + 1) = " "
    THEN [matched |-> TRUE, tag |-> Slice(line, 0, c), text |-> SliceFrom(line, c + 2)]
    ELSE [matched |-> FALSE]

\* METADATA_RE.match(line): leading whitespace, a key of words, ": ", any value
METADATA_RE(line) ==
    LET rest == LStrip(line)
        c == FindChar(rest, ":")
    IN
    IF /\ c >= 1
       /\ IsWords(Slice(rest, 0, c), WordChars)
       /\ Len(rest) >= c + 2
       /\ At(rest, c + 1) = " "
    THEN [matched |-> TRUE, key |-> Slice(rest, 0, c), value |-> SliceFrom(rest, c + 2)]
    ELSE [matched |-> FALSE]

\* \d+(?:\.\d+)*
IsDottedNumber(s) ==
    /\ Len(s) > 0
    /\ \A i \in 1..Len(s) : s[i] \in DigitChars \cup {"."}
    /\ s[1] # "."
    /\ s[Len(s)] # "."
    /\ \A i \in 1..(Len(s) - 1) : ~(s[i] = "." /\ s[i + 1] = ".")

\* [A-Z](?:[A-Z ]*[A-Z])?
IsTitle(s) ==
    /\ Len(s) > 0
    /\ \A i \in 1..Len(s) : s[i] \in UpperChars \cup {" "}
    /\ s[1] # " "
    /\ s[Len(s)] # " "

\* [int(x) for x in group.split(".")]
RECURSIVE NumberList(_)
NumberList(parts) ==
    IF Len(parts) = 0 THEN <<>>
    ELSE <<ParseInt(parts[1])>> \o NumberList(Tail(parts))

\* SECTION_RE.match(line): dotted number, optional dot, space, title and an
\* optional ": description"; has_desc tells whether group 3 took part
SECTION_RE(line) ==
    LET sp == FindChar(line, " ")
        numpart == Slice(line, 0, sp)
        numcore == IF sp >= 1 /\ At(numpart, sp - 1) = "." THEN Slice(numpart, 0, sp - 1) ELSE numpart
        rest == SliceFrom(line, sp + 1)
        c == FindChar(rest, ":")
    IN
    IF sp >= 1 /\ IsDottedNumber(numcore)
    THEN IF c = -1
         THEN IF IsTitle(rest)
              THEN [matched |-> TRUE, number |-> NumberList(Split(numcore, ".")), title |-> rest,
                    has_desc |-> FALSE, desc |-> <<>>]
              ELSE [matched |-> FALSE]
         ELSE IF IsTitle(Slice(rest, 0, c)) /\ Len(rest) >= c + 2 /\ At(rest, c + 1) = " "
              THEN [matched |-> TRUE, number |-> NumberList(Split(numcore, ".")), title |-> Slice(rest, 0, c),
                    has_desc |-> TRUE, desc |-> SliceFrom(rest, c + 2)]
              ELSE [matched |-> FALSE]
    ELSE [matched |-> FALSE]

\* BULLET_RE.match(line): indentation, a marker, a space, a non-empty text
BULLET_RE(line) ==
    LET w == LeadCount(line, SpaceChars) IN
    IF /\ Len(line) >= w + 3
       /\ At(line, w) \in BulletMarkers
       /\ At(line, w + 1) = " "
    THEN [matched |-> TRUE, indent |-> w, marker |-> At(line, w), text |-> SliceFrom(line, w + 2)]
    ELSE [matched |-> FALSE]

\* TABLE_RE.match(line)
TABLE_RE(line) ==
    LET w == LeadCount(line, SpaceChars) IN Len(line) > w /\ At(line, w) = "|"

\* FENCE_RE.match(line): indentation, the marker, the info string
FENCE_RE(line) ==
    LET w == LeadCount(line, SpaceChars) IN
    IF StartsWith(line, FenceMarker, w)
    THEN [matched |-> TRUE, indent |-> w, info |-> SliceFrom(line, w + 3)]
    ELSE [matched |-> FALSE]

\* COMMENT_RE.match(line)
COMMENT_RE(line) ==
    LET w == LeadCount(line, SpaceChars) IN Len(line) > w /\ At(line, w) = "#"

(***************************************************************************)
(* Inline comments outside code spans                                      *)
(***************************************************************************)
\* in_code after the characters before offset i have been scanned
InCodeAt(s, i) == Cardinality({k \in 1..i : s[k] = Backtick}) % 2 = 1

\* the offset of the first "i#" that is not in a code span, or -1 (the scan
\* shared by strip_illegal_inline_comment and strip_inline_comment_for_detection)
MarkerPos(s) ==
    LET hits == {i \in 0..Len(s) : StartsWith(s, CommentMarker, i) /\ ~InCodeAt(s, i)} IN
    IF hits = {} THEN -1 ELSE Min(hits)

strip_inline_comment_for_detection(line) ==
    IF MarkerPos(line) = -1 THEN line ELSE RStrip(Slice(line, 0, MarkerPos(line)))

Diag(severity, code, line_no, column) ==
    [severity |-> severity, code |-> code, loc |-> [line |-> line_no, column |-> column]]

\* strip_illegal_inline_comment: the stripped line and the diagnostics list
\* after the call
strip_illegal_inline_comment(line, line_no, diags) ==
    IF MarkerPos(line) = -1
    THEN [line |-> line, diagnostics |-> diags]
    ELSE [line |-> RStrip(Slice(line, 0, MarkerPos(line))),
          diagnostics |-> Append(diags, Diag("warning", "INLINE_COMMENT_ILLEGAL", line_no, MarkerPos(line) + 1))]

(***************************************************************************)
(* The inline lexer                                                        *)
(***************************************************************************)
\* the end of the maximal run of word characters that starts at offset s
RunEnd(txt, s) == s + LeadCount(SliceFrom(txt, s), WordChars)

LabelMatch(txt, s, e) ==
    [matched |-> TRUE, start |-> s, end |-> e + 1, identifier |-> Slice(txt, s, e)]

LabelMatchIn(txt, starts) ==
    IF starts = {} THEN [matched |-> FALSE]
    ELSE LabelMatch(txt, Min(starts), RunEnd(txt, Min(starts)))

\* LABEL_RE.search(text, pos): the leftmost offset >= pos where a maximal run
\* of word characters is directly followed by a colon
LABEL_RE(txt, pos) ==
    LabelMatchIn(txt, {s \in pos..(Len(txt) - 1) :
                          /\ At(txt, s) \in WordChars
                          /\ RunEnd(txt, s) < Len(txt)
                          /\ At(txt, RunEnd(txt, s)) = ":"})

TextNode(value, line_no, c1, c2) ==
    [type |-> "Text", value |-> value, loc |-> make_loc(line_no, c1, line_no, c2)]

\* the InlineLabel dictionary: the text key only when trailing is non-empty
LabelNode(identifier, trailing, line_no, c1, c2) ==
    IF trailing # <<>>
    THEN [type |-> "InlineLabel", identifier |-> identifier, text |-> trailing, loc |-> make_loc(line_no, c1, line_no, c2)]
    ELSE [type |-> "InlineLabel", identifier |-> identifier, loc |-> make_loc(line_no, c1, line_no, c2)]

\* end = next_match.start() if next_match else len(text)
LabelEnd(txt, next_match) == IF next_match.matched THEN next_match.start ELSE Len(txt)

\* the while loop of parse_labels_into, from offset pos
RECURSIVE LabelsFrom(_, _, _, _, _)
\* the rest of an iteration that found match, whose label ends at end
LabelsMatched(txt, pos, out, line_no, base_col, match, end) ==
    LabelsFrom(txt, end,
               Append(IF match.start > pos
                      THEN Append(out, TextNode(Slice(txt, pos, match.start), line_no, base_col + pos, base_col + match.start))
                      ELSE out,
                      LabelNode(match.identifier, Slice(txt, match.end, end), line_no, base_col + match.start, base_col + end)),
               line_no, base_col)

\* an iteration whose search returned match
LabelsSearched(txt, pos, out, line_no, base_col, match) ==
    IF ~match.matched
    THEN IF SliceFrom(txt, pos) # <<>>
         THEN Append(out, TextNode(SliceFrom(txt, pos), line_no, base_col + pos, base_col + Len(txt)))
         ELSE out
    ELSE LabelsMatched(txt, pos, out, line_no, base_col, match, LabelEnd(txt, LABEL_RE(txt, match.end)))

LabelsFrom(txt, pos, out, line_no, base_col) ==
    LabelsSearched(txt, pos, out, line_no, base_col, LABEL_RE(txt, pos))

parse_labels_into(txt, out, line_no, base_col) == LabelsFrom(txt, 0, out, line_no, base_col)

\* the while loop of parse_inline_without_comment from offset i, and the
\* code after it
RECURSIVE InlineScan(_, _, _, _, _, _, _, _)
InlineScan(txt, i, in_code, code_start, plain_start, out, line_no, start_col) ==
    IF i < Len(txt)
    THEN IF At(txt, i) = Backtick
         THEN IF in_code
              THEN InlineScan(txt, i + 1, FALSE, code_start, i + 1,
                              Append(out, [type |-> "InlineCode", code |-> Slice(txt, code_start, i),
                                           loc |-> make_loc(line_no, start_col + code_start, line_no, start_col + i)]),
                              line_no, start_col)
              ELSE InlineScan(txt, i + 1, TRUE, i + 1, plain_start,
                              IF plain_start < i
                              THEN parse_labels_into(Slice(txt, plain_start, i), out, line_no, start_col + plain_start)
                              ELSE out,
                              line_no, start_col)
         ELSE InlineScan(txt, i + 1, in_code, code_start, plain_start, out, line_no, start_col)
    ELSE LET plain == IF in_code THEN code_start - 1 ELSE plain_start IN
         IF plain < Len(txt)
         THEN parse_labels_into(SliceFrom(txt, plain), out, line_no, start_col + plain)
         ELSE out

parse_inline_without_comment(txt, line_no, start_col) ==
    InlineScan(txt, 0, FALSE, 0, 0, <<>>, line_no, start_col)

\* comment_pos with the in_code test left out: the first "i#" anywhere
comment_pos_unscoped(txt, allow) ==
    LET hits == {i \in 0..Len(txt) : StartsWith(txt, CommentMarker, i)} IN
    IF allow /\ hits # {} THEN Min(hits) ELSE -1

\* comment_pos of parse_inline (None is -1): the first offset where the text
\* has "i#" and in_code, toggled by every backquote up to and including the
\* one at that offset, is false
comment_pos(txt, allow) ==
    LET hits == {i \in 0..Len(txt) : StartsWith(txt, CommentMarker, i) /\ ~InCodeAt(txt, i)} IN
    IF allow /\ hits # {} THEN Min(hits) ELSE -1

\* parse_inline once comment_pos is known
InlineSplit(txt, cp, line_no, start_col) ==
    IF cp # -1
    THEN Append(parse_inline_without_comment(Slice(txt, 0, cp), line_no, start_col),
                [type |-> "InlineComment", text |-> LStrip(SliceFrom(txt, cp + 2)),
                 loc |-> make_loc(line_no, start_col + cp, line_no, start_col + Len(txt))])
    ELSE parse_inline_without_comment(txt, line_no, start_col)

parse_inline(txt, allow, line_no, start_col) ==
    InlineSplit(txt, comment_pos(txt, allow), line_no, start_col)

(***************************************************************************)
(* Block helpers of parse_document                                         *)
(***************************************************************************)
\* parse_header returning None without a diagnostic
parse_header_silent(line, line_no, diags) ==
    LET m == HEADER_RE(line) IN
    IF ~m.matched
    THEN [header |-> None, diagnostics |-> diags]
    ELSE [header |-> [type |-> "Header", tag |-> m.tag, text |-> m.text,
                      loc |-> make_loc(line_no, 1, line_no, Len(line) + 1)],
          diagnostics |-> diags]

\* parse_header: the header (or None) and the diagnostics list after the call
parse_header(line, line_no, diags) ==
    LET m == HEADER_RE(line) IN
    IF ~m.matched
    THEN [header |-> None, diagnostics |-> Append(diags, Diag("error", "HEADER_INVALID", line_no, 1))]
    ELSE [header |-> [type |-> "Header", tag |-> m.tag, text |-> m.text,
                      loc |-> make_loc(line_no, 1, line_no, Len(line) + 1)],
          diagnostics |-> diags]

\* first_non_blank testing `if ln` instead of `if ln.strip()`
first_non_blank_untrimmed(lns) ==
    IF \A i \in 1..Len(lns) : lns[i] = <<>> THEN -1
    ELSE Min({i \in 1..Len(lns) : lns[i] # <<>>}) - 1

\* the index of the first non-blank line, or -1 (first_non_blank is None)
first_non_blank(lns) ==
    IF \A i \in 1..Len(lns) : IsBlank(lns[i]) THEN -1
    ELSE Min({i \in 1..Len(lns) : ~IsBlank(lns[i])}) - 1

\* the dictionary returned for a document without a non-blank line
EmptyDocumentValue ==
    [type |-> "Document", header |-> None, metadata |-> <<>>, body |-> <<>>,
     diagnostics |-> <<Diag("error", "EMPTY", 1, 1)>>]

\* the document dictionary with the diagnostics key always set
DocumentValue_always(hdr, meta, bdy, diags) ==
    [type |-> "Document", header |-> hdr, metadata |-> meta, body |-> bdy, diagnostics |-> diags]

\* the document dictionary built at the end of parse_document: the
\* diagnostics key only when the list is non-empty
DocumentValue(hdr, meta, bdy, diags) ==
    IF diags # <<>>
    THEN [type |-> "Document", header |-> hdr, metadata |-> meta, body |-> bdy, diagnostics |-> diags]
    ELSE [type |-> "Document", header |-> hdr, metadata |-> meta, body |-> bdy]

\* add_block: the new node enters the arena and its id is appended to the
\* body of the section on top of the stack, or to the root body
add_block(bdy, stack, arena, block) ==
    LET id == Len(arena) + 1
        arena1 == Append(arena, block)
        top == stack[Len(stack)]
    IN
    IF stack # <<>>
    THEN [body |-> bdy, nodes |-> [arena1 EXCEPT ![top].body = Append(@, id)]]
    ELSE [body |-> Append(bdy, id), nodes |-> arena1]

\* the stack after the pop loop of place_section
RECURSIVE PopToLevel(_, _, _)
PopToLevel(stack, arena, level) ==
    IF stack # <<>> /\ Len(arena[stack[Len(stack)]].number) >= level
    THEN PopToLevel(SubSeq(stack, 1, Len(stack) - 1), arena, level)
    ELSE stack

\* the parent search of place_section: the innermost stack entry whose number
\* is parent_number, or 0 (parent is None)
FindParent(stack, arena, parent_number) ==
    LET hits == {k \in 1..Len(stack) : arena[stack[k]].number = parent_number} IN
    IF parent_number # <<>> /\ hits # {}
    THEN stack[CHOOSE k \in hits : \A j \in hits : j <= k]
    ELSE 0

\* place_section with the recovered section left off the stack
place_section_unpushed(bdy, stack, arena, section, diags, line_no) ==
    LET stack1 == PopToLevel(stack, arena, Len(section.number))
        parent_number == SubSeq(section.number, 1, Len(section.number) - 1)
        parent == FindParent(stack1, arena, parent_number)
        id == Len(arena) + 1
        arena1 == Append(arena, section)
    IN
    [diagnostics |-> IF parent_number # <<>> /\ parent = 0
                     THEN Append(diags, Diag("warning", "SECTION_PARENT_MISSING", line_no, 1))
                     ELSE diags,
     body |-> IF parent # 0 THEN bdy ELSE Append(bdy, id),
     nodes |-> IF parent # 0 THEN [arena1 EXCEPT ![parent].body = Append(@, id)] ELSE arena1,
     section_stack |-> IF parent_number # <<>> /\ parent = 0 THEN stack1 ELSE Append(stack1, id)]

\* place_section with a section whose parent is missing attached to the
\* innermost open section
place_section_nearest(bdy, stack, arena, section, diags, line_no) ==
    LET stack1 == PopToLevel(stack, arena, Len(section.number))
        parent_number == SubSeq(section.number, 1, Len(section.number) - 1)
        found == FindParent(stack1, arena, parent_number)
        parent == IF found = 0 /\ stack1 # <<>> THEN stack1[Len(stack1)] ELSE found
        id == Len(arena) + 1
        arena1 == Append(arena, section)
    IN
    [diagnostics |-> IF parent_number # <<>> /\ found = 0
                     THEN Append(diags, Diag("warning", "SECTION_PARENT_MISSING", line_no, 1))
                     ELSE diags,
     body |-> IF parent # 0 THEN bdy ELSE Append(bdy, id),
     nodes |-> IF parent # 0 THEN [arena1 EXCEPT ![parent].body = Append(@, id)] ELSE arena1,
     section_stack |-> Append(stack1, id)]

\* place_section: root body, stack, arena and diagnostics after the call
place_section(bdy, stack, arena, section, diags, line_no) ==
    LET stack1 == PopToLevel(stack, arena, Len(section.number))
        parent_number == SubSeq(section.number, 1, Len(section.number) - 1)
        parent == FindParent(stack1, arena, parent_number)
        id == Len(arena) + 1
        arena1 == Append(arena, section)
    IN
    [diagnostics |-> IF parent_number # <<>> /\ parent = 0
                     THEN Append(diags, Diag("warning", "SECTION_PARENT_MISSING", line_no, 1))
                     ELSE diags,
     body |-> IF parent # 0 THEN bdy ELSE Append(bdy, id),
     nodes |-> IF parent # 0 THEN [arena1 EXCEPT ![parent].body = Append(@, id)] ELSE arena1,
     section_stack |-> Append(stack1, id)]

\* the table row dictionary of parse_table
TableRow(row, line_no) ==
    LET parts == Split(Strip(row), "|")
        inner == SubSeq(parts, 2, Len(parts) - 1)
    IN
    [type |-> "TableRow", cells |-> [k \in 1..Len(inner) |-> Strip(inner[k])],
     loc |-> make_loc(line_no, 1, line_no, Len(RStrip(row)) + 1)]

\* FENCE_IN_TABLE reported for the first offending row of the run only
TableDiagnostics_first(rows, k, diags, start_line) ==
    LET off == {j \in k..Len(rows) : Contains(rows[j], FenceMarker)} IN
    IF off = {} THEN diags
    ELSE Append(diags, Diag("error", "FENCE_IN_TABLE", start_line + Min(off) - 1, IndexOf(rows[Min(off)], FenceMarker) + 1))

\* the FENCE_IN_TABLE diagnostics of rows k.. appended to diags
RECURSIVE TableDiagnostics(_, _, _, _)
TableDiagnostics(rows, k, diags, start_line) ==
    IF k > Len(rows) THEN diags
    ELSE TableDiagnostics(rows, k + 1,
             IF Contains(rows[k], FenceMarker)
             THEN Append(diags, Diag("error", "FENCE_IN_TABLE", start_line + k - 1, IndexOf(rows[k], FenceMarker) + 1))
             ELSE diags,
             start_line)

\* parse_table taking the data rows from the second parsed row on
parse_table_shifted(rows, diags, start_line) ==
    LET parsed_rows == [k \in 1..Len(rows) |-> TableRow(rows[k], start_line + k - 1)]
        header_row == IF Len(parsed_rows) > 0 THEN parsed_rows[1] ELSE [type |-> "TableRow", cells |-> <<>>]
        data_rows == IF Len(parsed_rows) > 2 THEN SubSeq(parsed_rows, 2, Len(parsed_rows)) ELSE <<>>
        end_line == IF Len(rows) > 0 THEN start_line + Len(rows) - 1 ELSE start_line
        end_col == IF Len(rows) > 0 THEN Len(RStrip(rows[Len(rows)])) + 1 ELSE 1
        loc == make_loc(start_line, 1, end_line, end_col)
    IN
    [diagnostics |-> TableDiagnostics(rows, 1, diags, start_line),
     node |-> IF Len(parsed_rows) > 1
              THEN [type |-> "Table", header |-> header_row, rows |-> data_rows, loc |-> loc, align |-> parsed_rows[2]]
              ELSE [type |-> "Table", header |-> header_row, rows |-> data_rows, loc |-> loc]]

\* parse_table: the Table node and the diagnostics list after the call
parse_table(rows, diags, start_line) ==
    LET parsed_rows == [k \in 1..Len(rows) |-> TableRow(rows[k], start_line + k - 1)]
        header_row == IF Len(parsed_rows) > 0 THEN parsed_rows[1] ELSE [type |-> "TableRow", cells |-> <<>>]
        data_rows == IF Len(parsed_rows) > 2 THEN SubSeq(parsed_rows, 3, Len(parsed_rows)) ELSE <<>>
        end_line == IF Len(rows) > 0 THEN start_line + Len(rows) - 1 ELSE start_line
        end_col == IF Len(rows) > 0 THEN Len(RStrip(rows[Len(rows)])) + 1 ELSE 1
        loc == make_loc(start_line, 1, end_line, end_col)
    IN
    [diagnostics |-> TableDiagnostics(rows, 1, diags, start_line),
     node |-> IF Len(parsed_rows) > 1
              THEN [type |-> "Table", header |-> header_row, rows |-> data_rows, loc |-> loc, align |-> parsed_rows[2]]
              ELSE [type |-> "Table", header |-> header_row, rows |-> data_rows, loc |-> loc]]

\* " " * k
Spaces(k) == [i \in 1..k |-> " "]

\* the closing test without the comparison of the stripped line
IsFenceCloser_prefix(l2, fence_indent) ==
    StartsWith(l2, Spaces(fence_indent) \o FenceMarker, 0)

\* the test that ends a fenced block: the line starts with fence_indent
\* spaces and the marker, and stripped it is the bare marker
IsFenceCloser(l2, fence_indent) ==
    /\ StartsWith(l2, Spaces(fence_indent) \o FenceMarker, 0)
    /\ Strip(l2) = FenceMarker

\* the content loop storing the lines stripped
FenceScan_trimmed(lns, start, fence_indent) ==
    LET closers == {j \in start..(Len(lns) - 1) : IsFenceCloser(lns[j + 1], fence_indent)}
        stop == IF closers = {} THEN Len(lns) ELSE Min(closers)
    IN
    [closed |-> closers # {},
     closing_line_text |-> IF closers = {} THEN <<>> ELSE lns[stop + 1],
     content |-> [k \in 1..(stop - start) |-> Strip(lns[start + k])],
     idx |-> IF closers = {} THEN Len(lns) ELSE stop + 1]

\* the content loop leaving the cursor on the closing line
FenceScan_unclosed(lns, start, fence_indent) ==
    LET closers == {j \in start..(Len(lns) - 1) : IsFenceCloser(lns[j + 1], fence_indent)} IN
    IF closers = {}
    THEN [closed |-> FALSE, closing_line_text |-> <<>>, content |-> SubSeq(lns, start + 1, Len(lns)), idx |-> Len(lns)]
    ELSE [closed |-> TRUE, closing_line_text |-> lns[Min(closers) + 1],
          content |-> SubSeq(lns, start + 1, Min(closers)), idx |-> Min(closers)]

\* the content loop of the fenced block, entered with the cursor at start
FenceScan(lns, start, fence_indent) ==
    LET closers == {j \in start..(Len(lns) - 1) : IsFenceCloser(lns[j + 1], fence_indent)} IN
    IF closers = {}
    THEN [closed |-> FALSE, closing_line_text |-> <<>>, content |-> SubSeq(lns, start + 1, Len(lns)), idx |-> Len(lns)]
    ELSE [closed |-> TRUE, closing_line_text |-> lns[Min(closers) + 1],
          content |-> SubSeq(lns, start + 1, Min(closers)), idx |-> Min(closers) + 1]

\* end_line_no counting a closing line that was never read
FenceEndLine_closed(fence_start_line, content, closed) ==
    fence_start_line + Len(content) + 1

\* end_line_no of a fenced block
FenceEndLine(fence_start_line, content, closed) ==
    fence_start_line + Len(content) + (IF closed THEN 1 ELSE 0)

\* end_col of a fenced block
FenceEndCol(content, closing_line_text) ==
    IF closing_line_text # <<>> THEN Len(closing_line_text) + 1
    ELSE IF content # <<>> THEN Len(content[Len(content)]) + 1 ELSE 1

\* the diagnostic anchored one line past the last captured line
FenceUnterminatedLine_next(fence_start_line, content) == fence_start_line + Len(content) + 1

\* the diagnostic anchored at the opening line
FenceUnterminatedLine_opener(fence_start_line, content) == fence_start_line

\* the line of the FENCE_UNTERMINATED diagnostic
FenceUnterminatedLine(fence_start_line, content) == fence_start_line + Len(content)

\* info = m_fence.group(2).strip() or None
FenceInfo(m_fence) == IF Strip(m_fence.info) = <<>> THEN None ELSE Strip(m_fence.info)

\* the heading test of the body loop and of the lookaheads
IsHeading(line) == SECTION_RE(strip_inline_comment_for_detection(line)).matched

\* the end of the run of table lines that starts at i
RECURSIVE TableEnd(_, _)
TableEnd(lns, i) ==
    IF i < Len(lns) /\ TABLE_RE(lns[i + 1]) THEN TableEnd(lns, i + 1) ELSE i

\* the lookahead test without the comparison of the indentation
IsContinuation_unindented(la_line, base_indent) ==
    /\ ~IsBlank(la_line)
    /\ ~BULLET_RE(la_line).matched
    /\ ~(FENCE_RE(la_line).matched \/ TABLE_RE(la_line) \/ IsHeading(la_line))

\* whether the bullet lookahead takes la_line as a continuation line
IsContinuation(la_line, base_indent) ==
    /\ ~IsBlank(la_line)
    /\ ~BULLET_RE(la_line).matched
    /\ ~(FENCE_RE(la_line).matched \/ TABLE_RE(la_line) \/ IsHeading(la_line))
    /\ LeadCount(la_line, {" "}) >= base_indent

\* lookahead after the continuation loop entered at la
RECURSIVE Lookahead(_, _, _)
Lookahead(lns, la, base_indent) ==
    IF la < Len(lns) /\ IsContinuation(lns[la + 1], base_indent)
    THEN Lookahead(lns, la + 1, base_indent)
    ELSE la

\* the BulletItem dictionary: the continuation key only when there are
\* continuation lines
BulletItemNode(marker, inline_nodes, cont_lines, loc) ==
    IF cont_lines # <<>>
    THEN [type |-> "BulletItem", marker |-> marker, inline |-> inline_nodes, continuation |-> cont_lines, loc |-> loc]
    ELSE [type |-> "BulletItem", marker |-> marker, inline |-> inline_nodes, loc |-> loc]

BulletItemOf(lns, i, lookahead, mb, cont_lines) ==
    BulletItemNode(mb.marker,
                   parse_inline(JoinSpace(<<mb.text>> \o cont_lines), TRUE, i + 1, mb.indent + 3),
                   cont_lines,
                   make_loc(i + 1, mb.indent + 1, lookahead, Len(RStrip(lns[lookahead])) + 1))

\* one BulletItem: the item that starts at line index i and ends before
\* lookahead (last_line_idx is lookahead - 1)
BulletItem(lns, i, lookahead) ==
    BulletItemOf(lns, i, lookahead, BULLET_RE(lns[i + 1]),
                 [k \in 1..(lookahead - i - 1) |-> Strip(lns[i + 1 + k])])

\* the item loop of the bullet list, entered with the cursor at i
RECURSIVE BulletScan(_, _, _)
BulletItemsFrom(lns, i, items, lookahead) ==
    BulletScan(lns, lookahead, Append(items, BulletItem(lns, i, lookahead)))

BulletScan(lns, i, items) ==
    IF i < Len(lns) /\ BULLET_RE(lns[i + 1]).matched
    THEN BulletItemsFrom(lns, i, items, Lookahead(lns, i + 1, BULLET_RE(lns[i + 1]).indent + 2))
    ELSE [items |-> items, idx |-> i]

\* whether the paragraph loop stops before line l
EndsParagraph(l) ==
    \/ IsBlank(l)
    \/ FENCE_RE(l).matched
    \/ TABLE_RE(l)
    \/ IsHeading(l)
    \/ COMMENT_RE(l)
    \/ BULLET_RE(l).matched

\* the cursor after the paragraph loop entered at i
RECURSIVE ParagraphEnd(_, _)
ParagraphEnd(lns, i) ==
    IF i < Len(lns) /\ ~EndsParagraph(lns[i + 1]) THEN ParagraphEnd(lns, i + 1) ELSE i

\* the classification of the body loop, in its order of precedence
LineKind(line) ==
    IF IsBlank(line) THEN "blank"
    ELSE IF FENCE_RE(line).matched THEN "fence"
    ELSE IF TABLE_RE(line) THEN "table"
    ELSE IF IsHeading(line) THEN "section"
    ELSE IF COMMENT_RE(line) THEN "comment"
    ELSE IF BULLET_RE(line).matched THEN "bullet"
    ELSE "paragraph"

(***************************************************************************)
(* parse_document as a state machine: one action per step of the function *)
(***************************************************************************)
n == Len(lines)

\* no non-blank line: the early return
EmptyDocument ==
    /\ pc = "start"
    /\ first_non_blank(lines) = -1
    /\ document' = EmptyDocumentValue
    /\ pc' = "done"
    /\ UNCHANGED <<lines, idx, header, metadata, nodes, body, section_stack, diagnostics>>
    /\ UNCHANGED inlVars

\* header and diagnostics take the values parse_header returned
HeaderParsed(parsed) ==
    /\ header' = parsed.header
    /\ diagnostics' = parsed.diagnostics

\* parse_header applied to the stripped header candidate
HeaderStripped(stripped, line_no) ==
    HeaderParsed(parse_header(stripped.line, line_no, stripped.diagnostics))

\* the header candidate is line i
HeaderAt(i) ==
    /\ HeaderStripped(strip_illegal_inline_comment(lines[i + 1], i + 1, diagnostics), i + 1)
    /\ idx' = i + 1

\* the first non-blank line is the header candidate
ParseHeader ==
    /\ pc = "start"
    /\ first_non_blank(lines) # -1
    /\ HeaderAt(first_non_blank(lines))
    /\ pc' = "metadata"
    /\ UNCHANGED <<lines, metadata, nodes, body, section_stack, document>>
    /\ UNCHANGED inlVars

\* the entry appended for a line whose stripped text matched as m2
MetadataMatched(line, m2) ==
    /\ m2.matched
    /\ metadata' = Append(metadata, [type |-> "MetadataEntry", key |-> m2.key, value |-> m2.value,
                                     loc |-> make_loc(idx + 1, 1, idx + 1, Len(line) + 1)])

MetadataCleaned(line, cleaned) ==
    /\ MetadataMatched(line, METADATA_RE(cleaned.line))
    /\ diagnostics' = cleaned.diagnostics

\* an iteration of the metadata loop that appends an entry
MetadataEntry ==
    /\ pc = "metadata"
    /\ idx < n
    /\ ~IsBlank(lines[idx + 1])
    /\ METADATA_RE(lines[idx + 1]).matched
    /\ MetadataCleaned(lines[idx + 1], strip_illegal_inline_comment(lines[idx + 1], idx + 1, diagnostics))
    /\ idx' = idx + 1
    /\ UNCHANGED <<lines, pc, header, nodes, body, section_stack, document>>
    /\ UNCHANGED inlVars

\* the blank line ends the metadata block without being consumed
MetadataBlank_unconsumed ==
    /\ pc = "metadata"
    /\ idx < n
    /\ IsBlank(lines[idx + 1])
    /\ pc' = "body"
    /\ UNCHANGED <<lines, idx, header, metadata, nodes, body, section_stack, diagnostics, document>>
    /\ UNCHANGED inlVars

\* a blank line ends the metadata block and is consumed
MetadataBlank ==
    /\ pc = "metadata"
    /\ idx < n
    /\ IsBlank(lines[idx + 1])
    /\ idx' = idx + 1
    /\ pc' = "body"
    /\ UNCHANGED <<lines, header, metadata, nodes, body, section_stack, diagnostics, document>>
    /\ UNCHANGED inlVars

\* the line matched, but not once its inline comment is stripped: the
\* warning stays in the list
MetadataUncleaned(cleaned) ==
    /\ ~METADATA_RE(cleaned.line).matched
    /\ diagnostics' = cleaned.diagnostics

\* the metadata loop ends without consuming a line: end of input, a line
\* that is no key: value line, or one that is none once its comment is stripped
MetadataBreak ==
    /\ pc = "metadata"
    /\ IF idx >= n
       THEN UNCHANGED diagnostics
       ELSE /\ ~IsBlank(lines[idx + 1])
            /\ IF ~METADATA_RE(lines[idx + 1]).matched
               THEN UNCHANGED diagnostics
               ELSE MetadataUncleaned(strip_illegal_inline_comment(lines[idx + 1], idx + 1, diagnostics))
    /\ pc' = "body"
    /\ UNCHANGED <<lines, idx, header, metadata, nodes, body, section_stack, document>>
    /\ UNCHANGED inlVars

\* the arena and the root body take the values add_block returned
Added(added) ==
    /\ body' = added.body
    /\ nodes' = added.nodes

\* a blank line of the body: appended to the list `body` itself
BlankLine ==
    /\ pc = "body"
    /\ idx < n
    /\ LineKind(lines[idx + 1]) = "blank"
    /\ nodes' = Append(nodes, [type |-> "BlankLine", loc |-> make_loc(idx + 1, 1, idx + 1, Len(lines[idx + 1]) + 1)])
    /\ body' = Append(body, Len(nodes) + 1)
    /\ idx' = idx + 1
    /\ UNCHANGED <<lines, pc, header, metadata, section_stack, diagnostics, document>>
    /\ UNCHANGED inlVars

\* the FencedCodeBlock dictionary
FenceNode(m_fence, fence_start_line, scan) ==
    [type |-> "FencedCodeBlock", infoString |-> FenceInfo(m_fence), indent |-> m_fence.indent,
     content |-> scan.content,
     loc |-> make_loc(fence_start_line, 1,
                      FenceEndLine(fence_start_line, scan.content, scan.closed),
                      FenceEndCol(scan.content, scan.closing_line_text))]

\* the block and the diagnostic of a fence whose content loop returned scan
FenceScanned(m_fence, fence_start_line, scan) ==
    /\ idx' = scan.idx
    /\ diagnostics' = IF ~scan.closed
                      THEN Append(diagnostics, Diag("error", "FENCE_UNTERMINATED",
                                                    FenceUnterminatedLine(fence_start_line, scan.content), 1))
                      ELSE diagnostics
    /\ Added(add_block(body, section_stack, nodes, FenceNode(m_fence, fence_start_line, scan)))

FenceOpened(m_fence) == FenceScanned(m_fence, idx + 1, FenceScan(lines, idx + 1, m_fence.indent))

\* a fenced code block, up to its closing line or the end of input
FencedCodeBlock ==
    /\ pc = "body"
    /\ idx < n
    /\ LineKind(lines[idx + 1]) = "fence"
    /\ FenceOpened(FENCE_RE(lines[idx + 1]))
    /\ UNCHANGED <<lines, pc, header, metadata, section_stack, document>>
    /\ UNCHANGED inlVars

TableParsed(parsed) ==
    /\ diagnostics' = parsed.diagnostics
    /\ Added(add_block(body, section_stack, nodes, parsed.node))

\* the run of table lines ends before line index stop
TableRun(stop) ==
    /\ idx' = stop
    /\ TableParsed(parse_table(SubSeq(lines, idx + 1, stop), diagnostics, idx + 1))

\* a run of table lines
TableBlock ==
    /\ pc = "body"
    /\ idx < n
    /\ LineKind(lines[idx + 1]) = "table"
    /\ TableRun(TableEnd(lines, idx))
    /\ UNCHANGED <<lines, pc, header, metadata, section_stack, document>>
    /\ UNCHANGED inlVars

\* the Section dictionary of a heading line
SectionNode(line, m_sec, line_no) ==
    IF m_sec.has_desc /\ m_sec.desc # <<>>
    THEN [type |-> "Section", number |-> m_sec.number, title |-> m_sec.title, body |-> <<>>,
          level |-> Len(m_sec.number), loc |-> make_loc(line_no, 1, line_no, Len(RStrip(line)) + 1),
          description |-> m_sec.desc]
    ELSE [type |-> "Section", number |-> m_sec.number, title |-> m_sec.title, body |-> <<>>,
          level |-> Len(m_sec.number), loc |-> make_loc(line_no, 1, line_no, Len(RStrip(line)) + 1)]

\* the state takes the values place_section returned
Placed(placed) ==
    /\ diagnostics' = placed.diagnostics
    /\ body' = placed.body
    /\ nodes' = placed.nodes
    /\ section_stack' = placed.section_stack

SectionMatched(line, diags, m_sec) ==
    /\ m_sec.matched
    /\ Placed(place_section(body, section_stack, nodes, SectionNode(line, m_sec, idx + 1), diags, idx + 1))

SectionCleaned(line, cleaned) == SectionMatched(line, cleaned.diagnostics, SECTION_RE(cleaned.line))

\* a section heading (the stripped probe and the stripped line are the same
\* text, so a line that passes the probe always matches)
SectionHeading ==
    /\ pc = "body"
    /\ idx < n
    /\ LineKind(lines[idx + 1]) = "section"
    /\ SectionCleaned(lines[idx + 1], strip_illegal_inline_comment(lines[idx + 1], idx + 1, diagnostics))
    /\ idx' = idx + 1
    /\ UNCHANGED <<lines, pc, header, metadata, document>>
    /\ UNCHANGED inlVars

\* a whole-line comment
WholeLineComment ==
    /\ pc = "body"
    /\ idx < n
    /\ LineKind(lines[idx + 1]) = "comment"
    /\ Added(add_block(body, section_stack, nodes,
                 [type |-> "WholeLineComment", text |-> LStrip(SliceFrom(LStrip(lines[idx + 1]), 1)),
                  loc |-> make_loc(idx + 1, 1, idx + 1, Len(lines[idx + 1]) + 1)]))
    /\ idx' = idx + 1
    /\ UNCHANGED <<lines, pc, header, metadata, section_stack, diagnostics, document>>
    /\ UNCHANGED inlVars

\* the BulletList dictionary
BulletListNode(items, list_start_line) ==
    [type |-> "BulletList", items |-> items,
     loc |-> make_loc(list_start_line, 1,
                      IF items # <<>> THEN items[Len(items)].loc.end.line ELSE list_start_line,
                      IF items # <<>> THEN items[Len(items)].loc.end.column ELSE 1)]

BulletScanned(scan) ==
    /\ idx' = scan.idx
    /\ Added(add_block(body, section_stack, nodes, BulletListNode(scan.items, idx + 1)))

\* a bullet list: its items with their continuation lines
BulletList ==
    /\ pc = "body"
    /\ idx < n
    /\ LineKind(lines[idx + 1]) = "bullet"
    /\ BulletScanned(BulletScan(lines, idx, <<>>))
    /\ UNCHANGED <<lines, pc, header, metadata, section_stack, diagnostics, document>>
    /\ UNCHANGED inlVars

\* the Paragraph dictionary of the lines para_start_idx .. stop - 1
ParagraphNode(para_start_idx, stop) ==
    [type |-> "Paragraph",
     inline |-> parse_inline(JoinSpace([k \in 1..(stop - para_start_idx) |-> Strip(lines[para_start_idx + k])]),
                             TRUE, para_start_idx + 1, 1),
     loc |-> make_loc(para_start_idx + 1, 1, stop, Len(RStrip(lines[stop])) + 1)]

\* the paragraph loop ended before line index stop
ParagraphRun(stop) ==
    IF stop > idx
    THEN /\ idx' = stop
         /\ Added(add_block(body, section_stack, nodes, ParagraphNode(idx, stop)))
    ELSE /\ idx' = idx + 1
         /\ UNCHANGED <<body, nodes>>

\* the fallback: a paragraph of consecutive plain lines
Paragraph ==
    /\ pc = "body"
    /\ idx < n
    /\ LineKind(lines[idx + 1]) = "paragraph"
    /\ ParagraphRun(ParagraphEnd(lines, idx))
    /\ UNCHANGED <<lines, pc, header, metadata, section_stack, diagnostics, document>>
    /\ UNCHANGED inlVars

\* the end of the body loop: the document is built and returned
Finish ==
    /\ pc = "body"
    /\ idx >= n
    /\ document' = DocumentValue(header, metadata, body, diagnostics)
    /\ pc' = "done"
    /\ UNCHANGED <<lines, idx, header, metadata, nodes, body, section_stack, diagnostics>>
    /\ UNCHANGED inlVars

(***************************************************************************)
(* Inputs                                                                  *)
(***************************************************************************)
MaxBodyLines == 4
MaxFenceLines == 3
MaxMixedLines == 3
MaxBulletLines == 3
MaxTextLen == 4

\* all sequences over S of length at most k
SeqsUpTo(S, k) == UNION {[1..m -> S] : m \in 0..k}

HeaderLine == <<"T", ":", " ", "x">>                            \* T: x
BlankText == <<>>
SpaceLine == <<" ">>
Heading1 == <<"1", " ", "A">>                                   \* 1 A
Heading11 == <<"1", ".", "1", " ", "B">>                        \* 1.1 B
Heading121 == <<"1", ".", "2", ".", "1", " ", "C">>             \* 1.2.1 C
Heading1211 == <<"1", ".", "2", ".", "1", ".", "1", " ", "D">>  \* 1.2.1.1 D
Heading2 == <<"2", " ", "E">>                                   \* 2 E
PlainLine == <<"p">>
FenceBare == <<Backtick, Backtick, Backtick>>
FenceInfoLine == <<Backtick, Backtick, Backtick, "p", "y">>     \* the marker and "py"
FenceIndented == <<" ", Backtick, Backtick, Backtick>>
FenceTrailing == <<Backtick, Backtick, Backtick, " ">>
MetadataLine == <<"k", ":", " ", "v">>                          \* k: v
TableLine == <<"|", " ", "a", " ", "|">>                        \* | a |
CommentLine == <<"#", " ", "c">>                                \* # c
BulletLine == <<"-", " ", "b">>                                 \* - b
ContinuationLine == <<" ", " ", "c">>
IndentedLine == <<" ", "c">>
IndentedBullet == <<" ", " ", "-", " ", "d">>
IndentedFence == <<" ", " ", Backtick, Backtick, Backtick>>
IndentedTable == <<" ", " ", "|", " ", "a", " ", "|">>
TwoCellLine == <<"|", " ", "a", " ", "|", " ", "b", " ", "|">>      \* | a | b |
HeaderWithComment == <<"T", ":", " ", "x", " ", "i", "#", " ", "c">>    \* T: x i# c
MetadataOnlyComment == <<"k", ":", " ", "i", "#", " ", "c">>            \* k: i# c
HeadingWithComment == <<"1", " ", "A", " ", "i", "#", " ", "c">>        \* 1 A i# c
TableFenceLine == <<"|", Backtick, Backtick, Backtick, "|">>
HeadingOverview == <<"1", " ", "O", "V", "E", "R", "V", "I", "E", "W">>
HeadingDeep == <<"1", ".", "2", ".", "1", " ", "D", "E", "E", "P">>
HeadingDeeper == <<"1", ".", "2", ".", "1", ".", "1", " ", "D", "E", "E", "P", "E", "R">>

\* headings and the blocks between them
StructureLines == {BlankText, Heading1, Heading11, Heading121, Heading1211, Heading2, PlainLine}
\* fence openers, candidate closers and content
FenceLines == {FenceBare, FenceInfoLine, FenceIndented, FenceTrailing, PlainLine, Heading1, BlankText}

\* first lines: a header, a header with an inline comment, no header
FirstLines == {HeaderLine, HeaderWithComment, PlainLine}
\* metadata, headings with comments, tables and comments
MixedLines == {MetadataLine, MetadataOnlyComment, HeadingWithComment, TableLine, TableFenceLine, CommentLine, BlankText}
\* bullets, continuation lines and what ends them
BulletLines == {BulletLine, IndentedBullet, ContinuationLine, IndentedLine, IndentedFence, IndentedTable, PlainLine, BlankText}

\* documents that between them take every branch of parse_document
SampleDocuments ==
    {<<>>,
     <<BlankText, SpaceLine>>,
     <<HeaderLine>>,
     <<PlainLine, PlainLine>>,
     <<HeaderLine, HeadingOverview, HeadingDeep, HeadingDeeper>>,
     <<HeaderLine, TwoCellLine>>,
     <<HeaderLine, Heading1, TwoCellLine, TableLine, TwoCellLine, TableFenceLine, PlainLine>>,
     <<HeaderLine, Heading1, FenceBare, Heading11, TableFenceLine, IndentedBullet, MetadataOnlyComment, FenceBare, PlainLine>>,
     <<BlankText, HeaderLine, MetadataLine, BlankText, BlankText, FenceBare, PlainLine, FenceBare, TableLine,
       Heading1, CommentLine, BulletLine, ContinuationLine, PlainLine>>}

DocumentInputs ==
    SampleDocuments
    \cup {<<HeaderLine>> \o b : b \in SeqsUpTo(StructureLines, MaxBodyLines)}
    \cup {<<HeaderLine>> \o b : b \in SeqsUpTo(FenceLines, MaxFenceLines)}
    \cup {<<h>> \o b : h \in FirstLines, b \in SeqsUpTo(MixedLines, MaxMixedLines)}
    \cup {<<HeaderLine>> \o b : b \in SeqsUpTo(BulletLines, MaxBulletLines)}

Init ==
    /\ lines \in DocumentInputs
    /\ pc = "start"
    /\ idx = 0
    /\ header = None
    /\ metadata = <<>>
    /\ nodes = <<>>
    /\ body = <<>>
    /\ section_stack = <<>>
    /\ diagnostics = <<>>
    /\ document = None
    /\ text = <<>>
    /\ allow_inline_comment = FALSE
    /\ result = None

Next ==
    \/ EmptyDocument
    \/ ParseHeader
    \/ MetadataEntry
    \/ MetadataBlank
    \/ MetadataBreak
    \/ BlankLine
    \/ FencedCodeBlock
    \/ TableBlock
    \/ SectionHeading
    \/ WholeLineComment
    \/ BulletList
    \/ Paragraph
    \/ Finish

Spec == Init /\ [][Next]_vars

(***************************************************************************)
(* The inline lexer on its own: parse_inline and parse_labels_into applied *)
(* to every short text over the characters that matter to them             *)
(***************************************************************************)
InlineChars == {Backtick, "i", "#", "a", ":", " "}
CodeSpanText == <<Backtick, "i", "#", "n", "o", "t", "a", "c", "o", "m", "m", "e", "n", "t", Backtick>>
LabelsText == <<"i", "n", "t", "e", "n", "t", ":", " ", "r", "e", "f", "a", "c", "t", "o", "r", " ", "m", "o", "d", "u", "l", "e", " ",
                "a", "u", "t", "h", ":", " ", "t", "i", "g", "h", "t", "e", "n", " ", "v", "a", "l", "i", "d", "a", "t", "i", "o", "n">>
MarkerInCodeText == <<Backtick, "i", "#", Backtick, " ", "i", "#", " ", "c">>    \* a marker in a code span, then one outside
InlineInputs == SeqsUpTo(InlineChars, MaxTextLen) \cup {CodeSpanText, LabelsText, MarkerInCodeText}

InitInline ==
    /\ text \in InlineInputs
    /\ allow_inline_comment = FALSE
    /\ result = None
    /\ pc = "inline"
    /\ lines = <<>>
    /\ idx = 0
    /\ header = None
    /\ metadata = <<>>
    /\ nodes = <<>>
    /\ body = <<>>
    /\ section_stack = <<>>
    /\ diagnostics = <<>>
    /\ document = None

\* a call parse_inline(text, allow, 1, 1)
ParseInline ==
    /\ pc = "inline"
    /\ \E allow \in BOOLEAN :
          /\ allow_inline_comment' = allow
          /\ result' = parse_inline(text, allow, 1, 1)
    /\ pc' = "inline_done"
    /\ UNCHANGED text
    /\ UNCHANGED docVars

\* a call parse_labels_into(text, [], 1, 1) on a text run without code spans
ParseLabels ==
    /\ pc = "inline"
    /\ \A i \in 1..Len(text) : text[i] # Backtick
    /\ result' = parse_labels_into(text, <<>>, 1, 1)
    /\ pc' = "labels_done"
    /\ UNCHANGED <<text, allow_inline_comment>>
    /\ UNCHANGED docVars

NextInline == ParseInline \/ ParseLabels

SpecInline == InitInline /\ [][NextInline]_vars

(***************************************************************************)
(* Properties                                                              *)
(***************************************************************************)
SectionIds == {i \in 1..Len(nodes) : nodes[i].type = "Section"}
InSeq(x, s) == \E k \in 1..Len(s) : s[k] = x
Occurrences(x, s) == Cardinality({k \in 1..Len(s) : s[k] = x})
DiagCount(ds, code) == Cardinality({k \in 1..Len(ds) : ds[k].code = code})
ParentNumber(num) == SubSeq(num, 1, Len(num) - 1)
\* the id the next node gets
NewId == Len(nodes) + 1
\* the step creates a Section node / a node of another type
NewSection == Len(nodes') = Len(nodes) + 1 /\ nodes'[Len(nodes')].type = "Section"
NewBlock == Len(nodes') = Len(nodes) + 1 /\ nodes'[Len(nodes')].type # "Section"
\* no section that stays open for a heading numbered num (one of smaller
\* depth) has the heading's parent number
ParentMissing(num) ==
    /\ ParentNumber(num) # <<>>
    /\ \A k \in 1..Len(section_stack) :
          Len(nodes[section_stack[k]].number) < Len(num) => nodes[section_stack[k]].number # ParentNumber(num)

C1_RecoveryStep ==
    NewSection /\ ParentMissing(nodes'[NewId].number) =>
        /\ body' = Append(body, NewId)
        /\ \A i \in 1..Len(nodes) : nodes'[i] = nodes[i]
        /\ DiagCount(diagnostics', "SECTION_PARENT_MISSING") = DiagCount(diagnostics, "SECTION_PARENT_MISSING") + 1
        /\ diagnostics'[Len(diagnostics')] = Diag("warning", "SECTION_PARENT_MISSING", idx + 1, 1)
        /\ section_stack' # <<>>
        /\ section_stack'[Len(section_stack')] = NewId

C1_ExtensionStep ==
    NewSection /\ section_stack # <<>> =>
        LET top == section_stack[Len(section_stack)] IN
        ParentNumber(nodes'[NewId].number) = nodes[top].number =>
            /\ nodes'[top].body = Append(nodes[top].body, NewId)
            /\ body' = body
            /\ DiagCount(diagnostics', "SECTION_PARENT_MISSING") = DiagCount(diagnostics, "SECTION_PARENT_MISSING")
            /\ section_stack' = Append(section_stack, NewId)

\* C1: a heading whose parent number is that of no section left open is
\* appended to the document root body and to no section body, with exactly one
\* SECTION_PARENT_MISSING warning at its line, and is pushed on the stack; a
\* heading that extends the section on top of the stack by one component is
\* appended to that section's body without a warning.
C1_SectionRecovery == [][C1_RecoveryStep /\ C1_ExtensionStep]_vars

\* 1 OVERVIEW, 1.2.1 DEEP, 1.2.1.1 DEEPER parsed: 1.2.1 in the root body with
\* one warning, 1.2.1.1 inside it
C1_Witness ==
    /\ pc = "done"
    /\ \E a, b, c \in SectionIds :
          /\ nodes[a].title = SliceFrom(HeadingOverview, 2)
          /\ nodes[b].number = <<1, 2, 1>>
          /\ nodes[c].number = <<1, 2, 1, 1>>
          /\ body = <<a, b>>
          /\ nodes[a].body = <<>>
          /\ nodes[b].body = <<c>>
    /\ DiagCount(diagnostics, "SECTION_PARENT_MISSING") = 1

\* C2: every Section has a non-empty number and level = its length; a Section
\* in the body of a Section P has P's number plus one component; a section
\* that is not in the body of the section its number names as parent is in
\* the root body only, and when its number has more than one component there
\* is a SECTION_PARENT_MISSING warning for its line.
C2_SectionNesting ==
    /\ \A i \in SectionIds : nodes[i].number # <<>> /\ nodes[i].level = Len(nodes[i].number)
    /\ \A p \in SectionIds : \A k \in 1..Len(nodes[p].body) :
          LET c == nodes[nodes[p].body[k]] IN
          c.type = "Section" =>
              /\ Len(c.number) = Len(nodes[p].number) + 1
              /\ ParentNumber(c.number) = nodes[p].number
    /\ \A i \in SectionIds :
          ~(\E p \in SectionIds : InSeq(i, nodes[p].body) /\ nodes[p].number = ParentNumber(nodes[i].number)) =>
              /\ InSeq(i, body)
              /\ \A p \in SectionIds : ~InSeq(i, nodes[p].body)
              /\ Len(nodes[i].number) > 1 =>
                    \E k \in 1..Len(diagnostics) :
                        /\ diagnostics[k].code = "SECTION_PARENT_MISSING"
                        /\ diagnostics[k].loc.line = nodes[i].loc.start.line

\* a section nested under its numeric parent beside a recovered one
C2_Witness ==
    /\ pc = "done"
    /\ \E p, c, r \in SectionIds :
          /\ InSeq(c, nodes[p].body)
          /\ InSeq(r, body)
          /\ Len(nodes[r].number) = 3
    /\ DiagCount(diagnostics, "SECTION_PARENT_MISSING") >= 1

C3_Step ==
    NewBlock =>
        LET target == IF section_stack = <<>> THEN 0 ELSE section_stack[Len(section_stack)] IN
        /\ IF target = 0
           THEN body' = Append(body, NewId)
           ELSE body' = body /\ nodes'[target].body = Append(nodes[target].body, NewId)
        /\ \A i \in SectionIds : i # target => nodes'[i].body = nodes[i].body
        /\ Occurrences(NewId, body') + Cardinality({i \in SectionIds : InSeq(NewId, nodes'[i].body)}) = 1

\* C3: every non-section block is appended exactly once, to the body of the
\* section on top of the section stack when it is produced, or to the root
\* body when the stack is empty, and to no other body.
C3_BlockOwnership == [][C3_Step]_vars

\* every character of every input line is white space (or there is no line)
AllBlankInput == \A i \in 1..Len(lines) : \A k \in 1..Len(lines[i]) : lines[i][k] \in {" ", "\t"}

\* C4: for an input of zero lines or of blank lines only, no parsing step
\* other than the empty-document return runs, nothing is parsed and no other
\* diagnostic is emitted, and the returned document has header None, empty
\* metadata and body, and exactly one diagnostic: the EMPTY error at 1:1.
C4_EmptyInput ==
    AllBlankInput =>
        /\ pc \in {"start", "done"}
        /\ idx = 0 /\ header = None /\ metadata = <<>> /\ body = <<>> /\ nodes = <<>>
        /\ section_stack = <<>> /\ diagnostics = <<>>
        /\ pc = "done" =>
              document = [type |-> "Document", header |-> None, metadata |-> <<>>, body |-> <<>>,
                          diagnostics |-> <<[severity |-> "error", code |-> "EMPTY",
                                             loc |-> [line |-> 1, column |-> 1]]>>]

\* a document of two blank lines, one of them a space, has been returned
C4_Witness == pc = "done" /\ AllBlankInput /\ Len(lines) = 2 /\ lines[2] # <<>>

\* start <= end on (line, column), and the end line within the input
LocOK(loc) ==
    /\ \/ loc.start.line < loc.end.line
       \/ loc.start.line = loc.end.line /\ loc.start.column <= loc.end.column
    /\ loc.end.line <= Len(lines)

AllLocOK(s) == \A k \in 1..Len(s) : LocOK(s[k].loc)

TableLocOK(t) ==
    /\ LocOK(t.header.loc)
    /\ "align" \in DOMAIN t => LocOK(t.align.loc)
    /\ AllLocOK(t.rows)

BulletListLocOK(b) == AllLocOK(b.items) /\ \A k \in 1..Len(b.items) : AllLocOK(b.items[k].inline)

\* C5: the location of the header, of every metadata entry, of every block
\* at any depth, of every table row, bullet item and inline node has
\* start <= end on (line, column) and an end line within the input.
C5_LocationInvariant ==
    /\ header # None => LocOK(header.loc)
    /\ AllLocOK(metadata)
    /\ AllLocOK(nodes)
    /\ \A i \in 1..Len(nodes) :
          /\ nodes[i].type = "Table" => TableLocOK(nodes[i])
          /\ nodes[i].type = "BulletList" => BulletListLocOK(nodes[i])
          /\ nodes[i].type = "Paragraph" => AllLocOK(nodes[i].inline)

\* a recovery path: an unterminated fence with content has been parsed
C5_Witness ==
    /\ pc = "done"
    /\ DiagCount(diagnostics, "FENCE_UNTERMINATED") = 1
    /\ \E i \in 1..Len(nodes) :
          /\ nodes[i].type = "FencedCodeBlock"
          /\ nodes[i].content # <<>>
          /\ nodes[i].loc.end.line = Len(lines)

\* a bullet item with a continuation line has been parsed
C5_WitnessBullet ==
    /\ pc = "done"
    /\ \E i \in 1..Len(nodes) :
          /\ nodes[i].type = "BulletList"
          /\ \E k \in 1..Len(nodes[i].items) : nodes[i].items[k].loc.end.line > nodes[i].items[k].loc.start.line

\* an unterminated fence without content, at the last line of the input
C5_WitnessEmptyFence ==
    /\ pc = "done"
    /\ \E i \in 1..Len(nodes) :
          /\ nodes[i].type = "FencedCodeBlock"
          /\ nodes[i].content = <<>>
          /\ nodes[i].loc.start.line = Len(lines)

DiagLineOK(d) == IF d.code = "EMPTY" THEN d.loc.line = 1 ELSE d.loc.line \in 1..Len(lines)

\* C6: every diagnostic in the parser's list and in the returned document
\* has a line between 1 and the number of input lines; the EMPTY diagnostic
\* has line 1.
C6_DiagnosticLocation ==
    /\ \A k \in 1..Len(diagnostics) : diagnostics[k].loc.line \in 1..Len(lines)
    /\ pc = "done" /\ "diagnostics" \in DOMAIN document =>
          \A k \in 1..Len(document.diagnostics) : DiagLineOK(document.diagnostics[k])

\* a FENCE_UNTERMINATED diagnostic on the last line of the input, after
\* content was captured
C6_Witness ==
    /\ pc = "done"
    /\ Len(lines) >= 3
    /\ "diagnostics" \in DOMAIN document
    /\ \E k \in 1..Len(document.diagnostics) :
          /\ document.diagnostics[k].code = "FENCE_UNTERMINATED"
          /\ document.diagnostics[k].loc.line = Len(lines)

\* the line is k spaces, the fence marker and nothing but white space
CloserShape(l, k) ==
    /\ Len(l) >= k + 3
    /\ \A j \in 1..k : l[j] = " "
    /\ \A j \in (k + 1)..(k + 3) : l[j] = Backtick
    /\ \A j \in (k + 4)..Len(l) : l[j] \in {" ", "\t"}

FenceIds == {i \in 1..Len(nodes) : nodes[i].type = "FencedCodeBlock"}
\* the last line a fenced block captured
FenceLast(i) == nodes[i].loc.start.line + Len(nodes[i].content)

\* C7: the content of a fenced block is the lines after its opener, in
\* order, up to the first line that is the opener's indentation in spaces,
\* the bare marker and white space only, or up to the end of input; no other
\* line closes it (a marker line with an info string is content); a block
\* that reached the end of input comes with exactly one FENCE_UNTERMINATED
\* error and leaves the cursor at the end of input.
C7_UnterminatedFence ==
    /\ \A i \in FenceIds :
          /\ FenceLast(i) <= Len(lines)
          /\ nodes[i].content = SubSeq(lines, nodes[i].loc.start.line + 1, FenceLast(i))
          /\ \A j \in (nodes[i].loc.start.line + 1)..FenceLast(i) : ~CloserShape(lines[j], nodes[i].indent)
          /\ FenceLast(i) < Len(lines) => CloserShape(lines[FenceLast(i) + 1], nodes[i].indent)
    /\ DiagCount(diagnostics, "FENCE_UNTERMINATED") = Cardinality({i \in FenceIds : FenceLast(i) = Len(lines)})
    /\ DiagCount(diagnostics, "FENCE_UNTERMINATED") <= 1
    /\ DiagCount(diagnostics, "FENCE_UNTERMINATED") = 1 => idx = Len(lines)

\* a fence opened with an info string, a line, and the marker with an info
\* string again: both lines are content and the block is unterminated
C7_Witness ==
    /\ pc = "done"
    /\ lines = <<HeaderLine, FenceInfoLine, PlainLine, FenceInfoLine>>
    /\ \E i \in FenceIds : nodes[i].content = <<PlainLine, FenceInfoLine>>
    /\ DiagCount(diagnostics, "FENCE_UNTERMINATED") = 1

\* C8: the returned document has a diagnostics field exactly when a
\* diagnostic was emitted (the EMPTY error of an input without a non-blank
\* line, or an entry of the parser's list), and then the field is that
\* non-empty list.
C8_DiagnosticsField ==
    pc = "done" =>
        /\ "diagnostics" \in DOMAIN document <=> (AllBlankInput \/ diagnostics # <<>>)
        /\ "diagnostics" \in DOMAIN document => document.diagnostics # <<>>
        /\ diagnostics # <<>> => document.diagnostics = diagnostics

\* a document with a body and without a diagnostics field has been returned
C8_Witness == pc = "done" /\ "diagnostics" \notin DOMAIN document /\ document.body # <<>>

\* the number of backquotes before offset i of the text
TicksBefore(i) == Cardinality({j \in 1..i : text[j] = Backtick})
\* the offsets of the markers "i#" outside backquote spans
OutsideMarkers ==
    {i \in 0..(Len(text) - 2) : text[i + 1] = "i" /\ text[i + 2] = "#" /\ TicksBefore(i) % 2 = 0}
CommentNodes == {k \in 1..Len(result) : result[k].type = "InlineComment"}

\* C9: parse_inline produces at most one InlineComment, the last node, and
\* only when comments are allowed; it starts at the first "i#" that has an
\* even number of backquotes before it, never at one inside a backquote span;
\* with comments allowed such a marker always splits off a comment; the
\* text `i#notacomment` in backquotes gives exactly one InlineCode node.
C9_CodeSpanPrecedence ==
    pc = "inline_done" =>
        /\ Cardinality(CommentNodes) <= 1
        /\ \A k \in CommentNodes :
              /\ allow_inline_comment
              /\ k = Len(result)
              /\ result[k].loc.start.column - 1 \in OutsideMarkers
              /\ \A i \in OutsideMarkers : i >= result[k].loc.start.column - 1
        /\ allow_inline_comment /\ OutsideMarkers # {} => CommentNodes # {}
        /\ text = CodeSpanText =>
              /\ Len(result) = 1
              /\ result[1].type = "InlineCode"
              /\ result[1].code = <<"i", "#", "n", "o", "t", "a", "c", "o", "m", "m", "e", "n", "t">>

\* the text `i#notacomment` in backquotes was lexed with comments allowed
C9_Witness == pc = "inline_done" /\ allow_inline_comment /\ text = CodeSpanText /\ Len(result) = 1

\* a marker inside a backquote span before a marker outside: the comment
\* starts at the second
C9_WitnessSplit ==
    /\ pc = "inline_done"
    /\ allow_inline_comment
    /\ CommentNodes # {}
    /\ \E i \in 0..(Len(text) - 2) : text[i + 1] = "i" /\ text[i + 2] = "#" /\ TicksBefore(i) % 2 = 1

LabelNodes == {k \in 1..Len(result) : result[k].type = "InlineLabel"}
\* the offsets of the colons that directly follow an identifier character
LabelColons == {i \in 1..(Len(text) - 1) : text[i + 1] = ":" /\ text[i] \in WordChars}

\* the labels of a run: one per identifier: match, in order, the first node
\* a label when the run starts with one
LabelStructure ==
    pc = "labels_done" =>
        /\ Cardinality(LabelNodes) = Cardinality(LabelColons)
        /\ \A a, b \in LabelNodes : a < b => result[a].loc.end.column <= result[b].loc.start.column
        /\ (LabelColons # {} /\ text[1] \in WordChars /\ \A i \in 1..Len(text) : i < Min(LabelColons) => text[i] \in WordChars)
              => result[1].type = "InlineLabel"

\* C10: parse_labels_into yields one InlineLabel per identifier: match, in
\* order; no Text node comes before the first label when the run starts with
\* a label; "intent: refactor module auth: tighten validation" gives exactly
\* two labels, intent with text "refactor module" and auth with text
\* "tighten validation".
C10_InlineLabels ==
    /\ LabelStructure
    /\ pc = "labels_done" /\ text = LabelsText =>
              /\ Len(result) = 2
              /\ result[1].type = "InlineLabel" /\ result[1].identifier = <<"i", "n", "t", "e", "n", "t">>
              /\ result[1].text = <<"r", "e", "f", "a", "c", "t", "o", "r", " ", "m", "o", "d", "u", "l", "e">>
              /\ result[2].type = "InlineLabel" /\ result[2].identifier = <<"a", "u", "t", "h">>
              /\ result[2].text = <<"t", "i", "g", "h", "t", "e", "n", " ", "v", "a", "l", "i", "d", "a", "t", "i", "o", "n">>

TableIds == {i \in 1..Len(nodes) : nodes[i].type = "Table"}
\* the first character after the leading white space is a pipe
PipeLine(l) == \E k \in 1..Len(l) : l[k] = "|" /\ \A j \in 1..(k - 1) : l[j] \in {" ", "\t"}
\* the line holds three backquotes in a row
HasMarker(l) == \E k \in 1..(Len(l) - 2) : l[k] = Backtick /\ l[k + 1] = Backtick /\ l[k + 2] = Backtick
\* header, align and rows of a Table, in order
AllRows(t) == <<t.header>> \o (IF "align" \in DOMAIN t THEN <<t.align>> ELSE <<>>) \o t.rows
\* the lines of table runs that hold the fence marker
OffendingRows ==
    {j \in 1..Len(lines) : HasMarker(lines[j]) /\ \E t \in TableIds : j \in nodes[t].loc.start.line..nodes[t].loc.end.line}

\* C11: a Table spans a whole run of pipe-prefixed lines, ended only by a
\* line that is not pipe-prefixed or by the end of input, and holds one row
\* per line of the run, fence marker or not; there is exactly one
\* FENCE_IN_TABLE error per row that contains the marker, at that row's line,
\* and the parser goes on after it.
C11_FenceInTable ==
    /\ \A t \in TableIds :
          /\ \A j \in nodes[t].loc.start.line..nodes[t].loc.end.line : PipeLine(lines[j])
          /\ nodes[t].loc.end.line < Len(lines) => ~PipeLine(lines[nodes[t].loc.end.line + 1])
          /\ Len(AllRows(nodes[t])) = nodes[t].loc.end.line - nodes[t].loc.start.line + 1
          /\ \A k \in 1..Len(AllRows(nodes[t])) : AllRows(nodes[t])[k].loc.start.line = nodes[t].loc.start.line + k - 1
          /\ idx >= nodes[t].loc.end.line
    /\ DiagCount(diagnostics, "FENCE_IN_TABLE") = Cardinality(OffendingRows)
    /\ \A j \in OffendingRows :
          Cardinality({k \in 1..Len(diagnostics) :
                          diagnostics[k] = [severity |-> "error", code |-> "FENCE_IN_TABLE",
                                            loc |-> [line |-> j, column |-> diagnostics[k].loc.column]]}) = 1
    /\ DiagCount(diagnostics, "FENCE_IN_TABLE") > 0 => pc \in {"body", "done"}

\* a table of three rows, the last two with the fence marker, was returned
\* with two errors
C11_Witness ==
    /\ pc = "done"
    /\ DiagCount(diagnostics, "FENCE_IN_TABLE") = 2
    /\ \E t \in TableIds :
          /\ Len(AllRows(nodes[t])) = 3
          /\ ~HasMarker(lines[nodes[t].loc.start.line])
          /\ HasMarker(lines[nodes[t].loc.start.line + 1])
          /\ HasMarker(lines[nodes[t].loc.end.line])

\* the phases of parse_document, in the order it leaves them
Rank(p) == CASE p = "start" -> 3 [] p = "metadata" -> 2 [] p = "body" -> 1 [] OTHER -> 0

\* every step moves to a later phase or moves the cursor forward within the
\* input; the body loop ends only at the end of input; an iteration of the
\* body loop produces exactly one block, which covers exactly the lines the
\* cursor passed (a Section covers its heading line)
C12_Step ==
    /\ \/ Rank(pc') < Rank(pc) /\ idx' >= idx
       \/ Rank(pc') = Rank(pc) /\ idx' > idx
    /\ idx' <= Len(lines)
    /\ pc = "body" /\ pc' = "done" => idx = Len(lines) /\ nodes' = nodes
    /\ pc = "body" /\ pc' = "body" =>
          /\ Len(nodes') = Len(nodes) + 1
          /\ \A i \in 1..Len(nodes) : nodes'[i].loc = nodes[i].loc
          /\ nodes'[NewId].loc.start.line = idx + 1
          /\ nodes'[NewId].loc.end.line = idx'
          /\ nodes'[NewId].type = "Section" => idx' = idx + 1

\* C12: parse_document terminates: every step strictly decreases the measure
\* (phase, lines left), which is bounded below, by advancing the line cursor
\* or leaving a phase for a later one; the body loop stops only when the
\* cursor is at the end of input, whatever diagnostics were emitted, and every
\* iteration of the body loop consumes at least one line and produces exactly
\* one block covering exactly the lines it consumed.
C12_Termination == [][C12_Step]_vars

\* a document with an unterminated fence, hence an error, was parsed to the
\* end, and the body has as many blocks as iterations
C12_Witness ==
    /\ pc = "done"
    /\ idx = Len(lines)
    /\ Len(nodes) >= 3
    /\ diagnostics # <<>>

\* the FENCE_UNTERMINATED diagnostics emitted so far
UnterminatedDiags == {k \in 1..Len(diagnostics) : diagnostics[k].code = "FENCE_UNTERMINATED"}
\* the fenced blocks that ran to the end of input
OpenFences == {i \in FenceIds : FenceLast(i) = Len(lines)}

\* C13 as stated: the FENCE_UNTERMINATED error is anchored at the line
\* following the last captured content line.
C13_AnchorFollowing ==
    \A k \in UnterminatedDiags : \E i \in OpenFences : diagnostics[k].loc.line = FenceLast(i) + 1

\* C13 amended: the FENCE_UNTERMINATED error is anchored at column 1 of the
\* last captured content line, or of the opening line when no content was
\* captured; that line is the last line of the input.
C13_AnchorLastCaptured ==
    \A k \in UnterminatedDiags :
        /\ OpenFences # {}
        /\ \A i \in OpenFences :
              diagnostics[k] = [severity |-> "error", code |-> "FENCE_UNTERMINATED",
                                loc |-> [line |-> nodes[i].loc.start.line + Len(nodes[i].content), column |-> 1]]
        /\ diagnostics[k].loc.line = Len(lines)

\* a fence that captured two lines ran to the end of input
C13_Witness ==
    /\ UnterminatedDiags # {}
    /\ \E i \in OpenFences : Len(nodes[i].content) = 2

LineBlank(l) == \A k \in 1..Len(l) : l[k] \in {" ", "\t"}
\* the line number of the header candidate: the first non-blank line
HeaderLineNo == CHOOSE i \in 1..Len(lines) : ~LineBlank(lines[i]) /\ \A j \in 1..(i - 1) : LineBlank(lines[j])
\* the line is a key: value line once its inline comment is stripped
MetaLine(l) == METADATA_RE(strip_inline_comment_for_detection(l)).matched
\* the first line after the header that is blank or no key: value line; the
\* line count plus one when there is none
MetaStop ==
    CHOOSE j \in (HeaderLineNo + 1)..(Len(lines) + 1) :
        /\ j <= Len(lines) => LineBlank(lines[j]) \/ ~MetaLine(lines[j])
        /\ \A i \in (HeaderLineNo + 1)..(j - 1) : ~LineBlank(lines[i]) /\ MetaLine(lines[i])
\* where body classification starts: after a blank terminator, at a
\* non-blank one
BodyStart == IF MetaStop <= Len(lines) /\ LineBlank(lines[MetaStop]) THEN MetaStop + 1 ELSE MetaStop

\* C14: the metadata entries are exactly the key: value lines between the
\* header and the first line that is blank or no key: value line, one entry
\* per line in input order; a blank terminator is consumed without a node,
\* a non-blank one is left for the body, whose first block starts on it.
C14_MetadataBoundary ==
    ~AllBlankInput /\ pc # "start" =>
        /\ pc = "metadata" => idx < MetaStop /\ Len(metadata) = idx - HeaderLineNo /\ nodes = <<>>
        /\ pc \in {"body", "done"} =>
              /\ Len(metadata) = MetaStop - HeaderLineNo - 1
              /\ idx >= BodyStart - 1
              /\ nodes = <<>> => idx = BodyStart - 1
              /\ nodes # <<>> => nodes[1].loc.start.line = BodyStart
              /\ \A i \in 1..Len(nodes) : nodes[i].loc.start.line >= BodyStart
        /\ \A k \in 1..Len(metadata) :
              /\ metadata[k].loc.start.line = HeaderLineNo + k
              /\ metadata[k].key = METADATA_RE(lines[HeaderLineNo + k]).key

\* an entry, a blank terminator, and a body that starts after it
C14_Witness ==
    /\ pc = "done"
    /\ ~AllBlankInput
    /\ Len(metadata) = 1
    /\ MetaStop <= Len(lines)
    /\ LineBlank(lines[MetaStop])
    /\ nodes # <<>>
    /\ nodes[1].loc.start.line = MetaStop + 1

\* a non-blank line that is no key: value line ends the block and opens the body
C14_WitnessUnconsumed ==
    /\ pc = "done"
    /\ ~AllBlankInput
    /\ Len(metadata) = 1
    /\ MetaStop <= Len(lines)
    /\ ~LineBlank(lines[MetaStop])
    /\ nodes # <<>>
    /\ nodes[1].loc.start.line = MetaStop

\* the lines whose inline comment was reported as illegal
IllegalCommentLines == {diagnostics[k].loc.line : k \in {j \in 1..Len(diagnostics) : diagnostics[j].code = "INLINE_COMMENT_ILLEGAL"}}
HasInlineComment(inl) == \E k \in 1..Len(inl) : inl[k].type = "InlineComment"
\* line L was consumed as the header candidate, as a metadata entry or as a
\* section heading
ConsumedStructurally(L) ==
    \/ L = HeaderLineNo
    \/ \E k \in 1..Len(metadata) : metadata[k].loc.start.line = L
    \/ \E i \in SectionIds : nodes[i].loc.start.line = L
\* line L is part of a paragraph or bullet item that has an InlineComment node
LegalCommentAt(L) ==
    \E i \in 1..Len(nodes) :
        \/ /\ nodes[i].type = "Paragraph"
           /\ L \in nodes[i].loc.start.line..nodes[i].loc.end.line
           /\ HasInlineComment(nodes[i].inline)
        \/ /\ nodes[i].type = "BulletList"
           /\ \E k \in 1..Len(nodes[i].items) :
                 /\ L \in nodes[i].items[k].loc.start.line..nodes[i].items[k].loc.end.line
                 /\ HasInlineComment(nodes[i].items[k].inline)

\* C15: in the returned document every INLINE_COMMENT_ILLEGAL warning is for
\* a line consumed as the header, as a metadata entry or as a section
\* heading, and no such line is part of a paragraph or bullet item with an
\* InlineComment node.
C15_IllegalCommentConsumed ==
    pc = "done" /\ ~AllBlankInput =>
        \A L \in IllegalCommentLines : ConsumedStructurally(L) /\ ~LegalCommentAt(L)

\* the depth-first pre-order walk of a body: a block, then, for a Section,
\* the walk of its body
RECURSIVE PreOrder(_)
PreOrder(ids) ==
    IF ids = <<>> THEN <<>>
    ELSE <<Head(ids)>>
         \o (IF nodes[Head(ids)].type = "Section" THEN PreOrder(nodes[Head(ids)].body) ELSE <<>>)
         \o PreOrder(Tail(ids))

StrictlyIncreasingLines(ids) ==
    \A k \in 1..(Len(ids) - 1) : nodes[ids[k]].loc.start.line < nodes[ids[k + 1]].loc.start.line

\* C16: the depth-first pre-order walk of the returned document body visits
\* the blocks in strictly increasing source start line.
C16_SourceOrder == pc = "done" => StrictlyIncreasingLines(PreOrder(body))

\* C17: once the header step has run, the cursor is past the first non-blank
\* line, and neither that line nor the blank lines before it appear in the
\* metadata or the body; the header is None exactly when there is one
\* HEADER_INVALID error, which is at that line, and there is never more than
\* one; parsing goes on with the line after it.
C17_HeaderHandling ==
    ~AllBlankInput /\ pc # "start" =>
        /\ idx >= HeaderLineNo
        /\ pc = "metadata" /\ metadata = <<>> => idx = HeaderLineNo
        /\ \A k \in 1..Len(metadata) : metadata[k].loc.start.line > HeaderLineNo
        /\ \A i \in 1..Len(nodes) : nodes[i].loc.start.line > HeaderLineNo
        /\ header = None <=> DiagCount(diagnostics, "HEADER_INVALID") = 1
        /\ DiagCount(diagnostics, "HEADER_INVALID") <= 1
        /\ \A k \in 1..Len(diagnostics) :
              diagnostics[k].code = "HEADER_INVALID" =>
                  diagnostics[k] = [severity |-> "error", code |-> "HEADER_INVALID",
                                    loc |-> [line |-> HeaderLineNo, column |-> 1]]
        /\ header # None => header.loc.start.line = HeaderLineNo /\ header.loc.end.line = HeaderLineNo
        /\ pc = "done" => document.header = header

\* a first line that is no header was consumed, and the body parsed after it
C17_Witness ==
    /\ pc = "done"
    /\ header = None
    /\ DiagCount(diagnostics, "HEADER_INVALID") = 1
    /\ nodes # <<>>

\* a header after a blank line
C17_WitnessLeadingBlank == pc = "done" /\ ~AllBlankInput /\ HeaderLineNo = 2 /\ header # None

\* the step adds a FencedCodeBlock
NewFence == NewBlock /\ nodes'[NewId].type = "FencedCodeBlock"
\* where add_block puts a block: 0 is the document root
StackTop == IF section_stack = <<>> THEN 0 ELSE section_stack[Len(section_stack)]

\* the step that produces a fenced block stores the lines after the opener
\* verbatim, passes them in one step without producing any other node, and
\* changes neither the section stack nor any body but the one the block is
\* appended to; the only diagnostic it may add is FENCE_UNTERMINATED
C18_Step ==
    NewFence =>
        /\ nodes'[NewId].content = SubSeq(lines, idx + 2, idx + 1 + Len(nodes'[NewId].content))
        /\ idx' \in {idx + 1 + Len(nodes'[NewId].content), idx + 2 + Len(nodes'[NewId].content)}
        /\ section_stack' = section_stack
        /\ metadata' = metadata
        /\ \A i \in 1..Len(nodes) : i # StackTop => nodes'[i] = nodes[i]
        /\ StackTop # 0 => body' = body
        /\ \/ diagnostics' = diagnostics
           \/ /\ Len(diagnostics') = Len(diagnostics) + 1
              /\ SubSeq(diagnostics', 1, Len(diagnostics)) = diagnostics
              /\ diagnostics'[Len(diagnostics')].code = "FENCE_UNTERMINATED"

\* no other node starts on a captured line, and no diagnostic but
\* FENCE_UNTERMINATED points at one
FenceLinesOpaque ==
    \A i \in FenceIds : \A j \in (nodes[i].loc.start.line + 1)..FenceLast(i) :
        /\ \A k \in 1..Len(nodes) : nodes[k].loc.start.line # j
        /\ \A k \in 1..Len(diagnostics) : diagnostics[k].loc.line = j => diagnostics[k].code = "FENCE_UNTERMINATED"

\* C18: the lines between a fence opener and its closer (or the end of
\* input) are stored verbatim in the block's content; none of them becomes a
\* block of its own, changes the section stack or a section body, or emits a
\* diagnostic.
C18_FenceOpaque == []FenceLinesOpaque /\ [][C18_Step]_vars

\* a fence inside a section holding a heading, a table line with the fence
\* marker, a bullet and a line with an inline comment
C18_Witness ==
    /\ pc = "done"
    /\ \E i \in FenceIds :
          /\ nodes[i].content = <<Heading11, TableFenceLine, IndentedBullet, MetadataOnlyComment>>
          /\ \E p \in SectionIds : InSeq(i, nodes[p].body)
    /\ Cardinality(SectionIds) = 1
    /\ diagnostics = <<>>

\* the stack holds sections of strictly increasing depth, its top is the
\* section placed last, and it is empty only while no heading was placed
StackShape ==
    /\ \A k \in 1..Len(section_stack) : section_stack[k] \in SectionIds
    /\ \A k \in 1..(Len(section_stack) - 1) :
          Len(nodes[section_stack[k]].number) < Len(nodes[section_stack[k + 1]].number)
    /\ section_stack = <<>> <=> SectionIds = {}
    /\ section_stack # <<>> => \A i \in SectionIds : i <= section_stack[Len(section_stack)]

\* once a heading was placed, no block other than a Section is appended to
\* the document root
C19_Step == section_stack # <<>> /\ NewBlock => body' = body

\* C19: during body parsing the section stack holds sections of strictly
\* increasing depth, its top is the most recently placed heading, it is never
\* empty again once a heading was placed, and from then on no non-section
\* block is attached to the document root.
C19_SectionStack == []StackShape /\ [][C19_Step]_vars

BulletListIds == {i \in 1..Len(nodes) : nodes[i].type = "BulletList"}
\* the number of leading spaces of the line
LeadingSpaces(l) == Cardinality({k \in 1..Len(l) : \A j \in 1..k : l[j] = " "})
\* white space, then one of the three markers, a space and some text
BulletShape(l) ==
    \E k \in 1..(Len(l) - 2) :
        /\ \A j \in 1..(k - 1) : l[j] \in {" ", "\t"}
        /\ l[k] \in {"-", "*", "+"}
        /\ l[k + 1] = " "
\* white space, then the fence marker
FenceShape(l) ==
    \E k \in 1..(Len(l) - 2) :
        /\ \A j \in 1..(k - 1) : l[j] \in {" ", "\t"}
        /\ l[k] = Backtick /\ l[k + 1] = Backtick /\ l[k + 2] = Backtick
\* a continuation line of an item whose marker is at column marker_col
ContinuationShape(l, marker_col) ==
    /\ ~LineBlank(l)
    /\ ~BulletShape(l)
    /\ ~FenceShape(l) /\ ~PipeLine(l) /\ ~IsHeading(l)
    /\ LeadingSpaces(l) >= (marker_col - 1) + 2

ItemOK(it) ==
    /\ it.loc.end.line <= Len(lines)
    /\ BulletShape(lines[it.loc.start.line])
    /\ it.loc.start.column = LeadingSpaces(lines[it.loc.start.line]) + 1
    /\ \A j \in (it.loc.start.line + 1)..it.loc.end.line : ContinuationShape(lines[j], it.loc.start.column)
    /\ it.loc.end.line < Len(lines) => ~ContinuationShape(lines[it.loc.end.line + 1], it.loc.start.column)
    /\ IF it.loc.end.line > it.loc.start.line
       THEN /\ "continuation" \in DOMAIN it
            /\ Len(it.continuation) = it.loc.end.line - it.loc.start.line
       ELSE "continuation" \notin DOMAIN it

\* C20: the items of a BulletList start on bullet lines and follow each
\* other without a gap from the list's first line to its last; the lines of
\* an item after its first are exactly the following lines that are
\* non-blank, no bullet, no fence, table or heading line and indented by at
\* least the marker's indentation plus 2; an item ends on the last line it
\* consumed; the list ends before the first line that is neither a bullet
\* nor a continuation, and the cursor resumes there.
C20_BulletList ==
    \A b \in BulletListIds :
        LET items == nodes[b].items IN
        /\ items # <<>>
        /\ items[1].loc.start.line = nodes[b].loc.start.line
        /\ items[Len(items)].loc.end.line = nodes[b].loc.end.line
        /\ \A k \in 1..(Len(items) - 1) : items[k + 1].loc.start.line = items[k].loc.end.line + 1
        /\ \A k \in 1..Len(items) : ItemOK(items[k])
        /\ nodes[b].loc.end.line < Len(lines) => ~BulletShape(lines[nodes[b].loc.end.line + 1])
        /\ idx >= nodes[b].loc.end.line
        /\ Len(nodes) = b => idx = nodes[b].loc.end.line

\* an item with a continuation line, followed by a line that is indented
\* too little to continue it
C20_Witness ==
    /\ pc = "done"
    /\ \E b \in BulletListIds :
          /\ "continuation" \in DOMAIN nodes[b].items[1]
          /\ nodes[b].loc.end.line < Len(lines)
          /\ LeadingSpaces(lines[nodes[b].loc.end.line + 1]) = 1

\* a list of two items, the first with a continuation line
C20_WitnessItems ==
    /\ pc = "done"
    /\ \E b \in BulletListIds :
          /\ Len(nodes[b].items) = 2
          /\ "continuation" \in DOMAIN nodes[b].items[1]

\* the number of pipes of the line
PipeCount(l) == Cardinality({k \in 1..Len(l) : l[k] = "|"})
\* the row is the one parsed from line j: its location, one cell per pair of
\* neighbouring pipes, each cell without pipes and surrounding white space
RowOfLine(r, j) ==
    /\ r.loc.start.line = j /\ r.loc.end.line = j
    /\ Len(r.cells) = PipeCount(lines[j]) - 1
    /\ \A c \in 1..Len(r.cells) :
          /\ \A k \in 1..Len(r.cells[c]) : r.cells[c][k] # "|"
          /\ r.cells[c] # <<>> => r.cells[c][1] # " " /\ r.cells[c][Len(r.cells[c])] # " "
    /\ lines[j] = TwoCellLine => r.cells = <<<<"a">>, <<"b">>>>

\* C21: a Table over the k >= 1 lines of a run has the row of the first line
\* as header, the align field exactly when k >= 2, then the row of the second
\* line, and the rows of the third to the last line, in order, as rows; the
\* row | a | b | has the cells a and b.
C21_TableRows ==
    \A t \in TableIds :
        LET L == nodes[t].loc.start.line
            k == nodes[t].loc.end.line - nodes[t].loc.start.line + 1
        IN
        /\ k >= 1
        /\ RowOfLine(nodes[t].header, L)
        /\ "align" \in DOMAIN nodes[t] <=> k >= 2
        /\ "align" \in DOMAIN nodes[t] => RowOfLine(nodes[t].align, L + 1)
        /\ Len(nodes[t].rows) = (IF k >= 2 THEN k - 2 ELSE 0)
        /\ \A j \in 1..Len(nodes[t].rows) : RowOfLine(nodes[t].rows[j], L + 1 + j)

\* a table of four lines: a header | a | b |, an align row and two rows
C21_Witness ==
    /\ pc = "done"
    /\ \E t \in TableIds :
          /\ lines[nodes[t].loc.start.line] = TwoCellLine
          /\ nodes[t].header.cells = <<<<"a">>, <<"b">>>>
          /\ "align" \in DOMAIN nodes[t]
          /\ Len(nodes[t].rows) = 2

\* a table of one line has a header and neither align nor rows
C21_WitnessSingle ==
    /\ pc = "done"
    /\ \E t \in TableIds : "align" \notin DOMAIN nodes[t] /\ nodes[t].rows = <<>>

====
